---- MODULE Spec2Model ----
(***************************************************************************)
(* Image Style Explorer: the project/discussion session state kept in      *)
(* st.session_state (pipeline/projects.py, pipeline/discussions.py), the   *)
(* handlers of app.py's main() that mutate it, and the style pipeline      *)
(* (pipeline/processing.py, styles/basic_filters.py).                      *)
(*                                                                         *)
(* Representation.  Python strings on which the code computes (project     *)
(* names, file names) are sequences of characters; string constants whose  *)
(* characters play no role are one-token sequences.  Identifiers           *)
(* f"disc_{n}" and f"proj_{n}" are the pairs <<"disc", n>>, <<"proj", n>>. *)
(* Python's None is the value None below.  Floats are kept in tenths.      *)
(***************************************************************************)
EXTENDS Integers, Sequences, FiniteSets, TLC

VARIABLES
    projects,                   \* st.session_state["projects"]
    next_project_id,            \* st.session_state["next_project_id"]
    current_project_id,         \* st.session_state["current_project_id"]
    pending_project_creation,   \* st.session_state["pending_project_creation"]
    pending_project_name,       \* st.session_state["pending_project_name"]
    discussions,                \* st.session_state["discussions"]
    next_discussion_id,         \* st.session_state["next_discussion_id"]
    current_discussion_id,      \* st.session_state["current_discussion_id"]
    last_global_disc_selected,  \* st.session_state["last_global_disc_selected"]
    call,                       \* the last call made: its name, argument and return value
    result,                     \* what the last process_image call produced
    cache,                      \* the entries of st.cache_data for process_image
    now,                        \* the clock, in seconds
    ncalls,                     \* the calls of process_image made
    computations                \* the runs of the body of process_image

vars == <<projects, next_project_id, current_project_id, pending_project_creation,
          pending_project_name, discussions, next_discussion_id,
          current_discussion_id, last_global_disc_selected, call, result,
          cache, now, ncalls, computations>>

project_vars == <<projects, next_project_id, current_project_id,
                  pending_project_creation, pending_project_name>>

discussion_vars == <<discussions, next_discussion_id, current_discussion_id>>

cache_vars == <<cache, now, ncalls, computations>>

-----------------------------------------------------------------------------
(* Bounds of the exploration *)

MaxDiscussions == 3

MaxProjects == 2

-----------------------------------------------------------------------------
(* Values *)

None == <<"None">>

DiscId(n) == <<"disc", n>>

ProjId(n) == <<"proj", n>>

\* The names a user types into the project-name input: empty, blank only,
\* and one padded with blanks that has an inner blank.
TypedNames ==
    {<<>>, <<" ", " ">>, <<" ", "a", " ", "b", " ">>}

IsSpace(c) == c = " "

RECURSIVE lstrip(_)
lstrip(s) == IF s # <<>> /\ IsSpace(Head(s)) THEN lstrip(Tail(s)) ELSE s

RECURSIVE rstrip(_)
rstrip(s) ==
    IF s # <<>> /\ IsSpace(s[Len(s)]) THEN rstrip(SubSeq(s, 1, Len(s) - 1)) ELSE s

\* str.strip(): leading and trailing whitespace removed.
strip(s) == rstrip(lstrip(s))

\* dict[key] = value
Put(dict, key, value) ==
    [k \in DOMAIN dict \cup {key} |-> IF k = key THEN value ELSE dict[k]]

EmptyDict == [k \in {} |-> None]

-----------------------------------------------------------------------------
(* pipeline/projects.py *)

set_current_project(project_id) ==
    current_project_id' = project_id

\* Variant of start_project_creation that keeps the current discussion.
start_project_creation_keepdisc ==
    /\ pending_project_creation' = TRUE
    /\ pending_project_name' = <<>>
    /\ current_discussion_id' = current_discussion_id

start_project_creation ==
    /\ pending_project_creation' = TRUE
    /\ pending_project_name' = <<>>
    /\ current_discussion_id' = None

\* Variant of finalize_project_creation that does not advance next_project_id.
finalize_project_creation_noincrement(name) ==
    LET proj_id == ProjId(next_project_id)
    IN  /\ next_project_id' = next_project_id
        /\ projects' = Put(projects, proj_id, [name |-> strip(name), discussion_ids |-> <<>>])
        /\ current_project_id' = proj_id
        /\ current_discussion_id' = None
        /\ pending_project_creation' = FALSE
        /\ pending_project_name' = <<>>
        /\ call' = [op |-> "finalize_project_creation", arg |-> name, ret |-> proj_id]

\* Variant of finalize_project_creation that leaves the current discussion selected.
finalize_project_creation_keepdisc(name) ==
    LET proj_id == ProjId(next_project_id)
    IN  /\ next_project_id' = next_project_id + 1
        /\ projects' = Put(projects, proj_id, [name |-> strip(name), discussion_ids |-> <<>>])
        /\ current_project_id' = proj_id
        /\ current_discussion_id' = current_discussion_id
        /\ pending_project_creation' = FALSE
        /\ pending_project_name' = <<>>
        /\ call' = [op |-> "finalize_project_creation", arg |-> name, ret |-> proj_id]

\* Variant of finalize_project_creation that selects the id after the new one.
finalize_project_creation_nextid(name) ==
    LET proj_id == ProjId(next_project_id)
    IN  /\ next_project_id' = next_project_id + 1
        /\ projects' = Put(projects, proj_id, [name |-> strip(name), discussion_ids |-> <<>>])
        /\ current_project_id' = ProjId(next_project_id + 1)
        /\ current_discussion_id' = None
        /\ pending_project_creation' = FALSE
        /\ pending_project_name' = <<>>
        /\ call' = [op |-> "finalize_project_creation", arg |-> name, ret |-> proj_id]

\* finalize_project_creation(name): projects.py 52-75
finalize_project_creation(name) ==
    LET proj_id == ProjId(next_project_id)
    IN  /\ next_project_id' = next_project_id + 1
        /\ projects' = Put(projects, proj_id, [name |-> strip(name), discussion_ids |-> <<>>])
        /\ current_project_id' = proj_id
        /\ current_discussion_id' = None
        /\ pending_project_creation' = FALSE
        /\ pending_project_name' = <<>>
        /\ call' = [op |-> "finalize_project_creation", arg |-> name, ret |-> proj_id]

get_project_discussion_ids(project_id) ==
    IF project_id \notin DOMAIN projects THEN <<>>
    ELSE projects[project_id].discussion_ids

-----------------------------------------------------------------------------
(* pipeline/discussions.py *)

set_current_discussion(disc_id) ==
    current_discussion_id' = disc_id

\* The record create_new_discussion stores for a new discussion.
NewDiscussion(project_id) ==
    [name                  |-> <<"New Discussion">>,
     image_bytes           |-> None,
     orig_name             |-> None,
     orig_ext              |-> <<".png">>,
     filter_label          |-> "None",
     blur_strength         |-> 9,
     painting_detail       |-> 60,
     painting_color_smooth |-> 6,
     project_id            |-> project_id]

\* Variant of create_new_discussion that does not attach the discussion to its project.
create_new_discussion_noattach(project_id) ==
    LET disc_id == DiscId(next_discussion_id)
    IN  /\ next_discussion_id' = next_discussion_id + 1
        /\ discussions' = Put(discussions, disc_id, NewDiscussion(project_id))
        /\ current_discussion_id' = disc_id
        /\ projects' = projects
        /\ call' = [op |-> "create_new_discussion", arg |-> project_id, ret |-> disc_id]

\* Variant of create_new_discussion that inserts the id at the front of the list.
create_new_discussion_prepend(project_id) ==
    LET disc_id == DiscId(next_discussion_id)
    IN  /\ next_discussion_id' = next_discussion_id + 1
        /\ discussions' = Put(discussions, disc_id, NewDiscussion(project_id))
        /\ current_discussion_id' = disc_id
        /\ projects' = IF project_id # None
                       THEN [projects EXCEPT ![project_id].discussion_ids = <<disc_id>> \o @]
                       ELSE projects
        /\ call' = [op |-> "create_new_discussion", arg |-> project_id, ret |-> disc_id]

\* Variant of create_new_discussion that does not make the new discussion current.
create_new_discussion_nocurrent(project_id) ==
    LET disc_id == DiscId(next_discussion_id)
    IN  /\ next_discussion_id' = next_discussion_id + 1
        /\ discussions' = Put(discussions, disc_id, NewDiscussion(project_id))
        /\ current_discussion_id' = current_discussion_id
        /\ projects' = IF project_id # None
                       THEN [projects EXCEPT ![project_id].discussion_ids = Append(@, disc_id)]
                       ELSE projects
        /\ call' = [op |-> "create_new_discussion", arg |-> project_id, ret |-> disc_id]

create_new_discussion(project_id) ==
    LET disc_id == DiscId(next_discussion_id)
    IN  /\ next_discussion_id' = next_discussion_id + 1
        /\ discussions' = Put(discussions, disc_id, NewDiscussion(project_id))
        /\ current_discussion_id' = disc_id
        /\ projects' = IF project_id # None
                       THEN [projects EXCEPT ![project_id].discussion_ids = Append(@, disc_id)]
                       ELSE projects
        /\ call' = [op |-> "create_new_discussion", arg |-> project_id, ret |-> disc_id]

\* The keys of the discussions dict in insertion order.  Keys are inserted only
\* as DiscId(next_discussion_id) with the counter increasing, so insertion order
\* is the order of the numbers.
DiscussionKeys ==
    SelectSeq([n \in 1..next_discussion_id |-> DiscId(n)],
              LAMBDA d : d \in DOMAIN discussions)

get_global_discussion_ids ==
    SelectSeq(DiscussionKeys, LAMBDA d : discussions[d].project_id = None)

\* get_current_discussion() returns (None, None) when no discussion is current,
\* and discussions.get(disc_id), None for a missing key, otherwise.
current_discussion_is_None ==
    \/ current_discussion_id = None
    \/ current_discussion_id \notin DOMAIN discussions

\* get_current_discussion()[1] when it is not None.
get_current_discussion == discussions[current_discussion_id]

-----------------------------------------------------------------------------
(* pipeline/__init__.py *)

Range(s) == {s[i] : i \in 1..Len(s)}

NoCall(arg) == [op |-> "none", arg |-> arg, ret |-> None]

\* No call of process_image has been made yet.
NoResult ==
    [image_bytes |-> None, filter_label |-> "", blur_strength |-> 0,
     painting_detail |-> 0, painting_color_smooth |-> 0, max_dim |-> 0,
     out |-> [raised |-> "", original |-> None, styled |-> None]]

\* init_pipeline_state(), which opens every run of main(): the keys exist after
\* the first run, so what is left is the creation of the default discussion
\* when the table is empty.
init_pipeline_state ==
    /\ IF discussions = EmptyDict
       THEN create_new_discussion(None)
       ELSE UNCHANGED <<discussions, next_discussion_id, current_discussion_id,
                        projects, call>>
    /\ UNCHANGED <<next_project_id, current_project_id, pending_project_creation,
                   pending_project_name, last_global_disc_selected, result, cache_vars>>

\* The session state after the first run of main(): init_project_state and
\* init_discussion_state on an empty session, the default discussion, and the
\* global selector showing its first option.

Init ==
    /\ projects = EmptyDict
    /\ next_project_id = 1
    /\ current_project_id = None
    /\ pending_project_creation = FALSE
    /\ pending_project_name = <<>>
    /\ discussions = Put(EmptyDict, DiscId(1), NewDiscussion(None))
    /\ next_discussion_id = 2
    /\ current_discussion_id = DiscId(1)
    /\ last_global_disc_selected = DiscId(1)
    /\ call = [op |-> "create_new_discussion", arg |-> None, ret |-> DiscId(1)]
    /\ result = NoResult
    /\ cache = EmptyDict
    /\ now = 0
    /\ ncalls = 0
    /\ computations = 0

-----------------------------------------------------------------------------
(* app.py: the handlers of main() *)

\* os.path.splitext on a name without directory separators: the extension
\* starts at the last dot that has a character other than a dot before it.
splitext(p) ==
    LET dots == {i \in 1..Len(p) : p[i] = "."}
        dotIndex == IF dots = {} THEN 0 ELSE CHOOSE i \in dots : \A j \in dots : j <= i
    IN  IF dotIndex > 1 /\ \E k \in 1..(dotIndex - 1) : p[k] # "."
        THEN <<SubSeq(p, 1, dotIndex - 1), SubSeq(p, dotIndex, Len(p))>>
        ELSE <<p, <<>>>>

\* The files a user uploads: a name and the bytes, an image of a given size.
UploadedFiles ==
    {[name |-> <<"c", ".", "j", "p", "g">>, bytes |-> <<"img", 2000, 1000>>],
     [name |-> <<"d", ".", "e", ".", "p", "n", "g">>, bytes |-> <<"img", 300, 400>>]}

\* app.py 228: the name screen replaces the whole page while a project is pending.
NameScreen == pending_project_creation

\* app.py 350: project mode with no discussion selected.
CaseA == current_project_id # None /\ current_discussion_id = None

\* app.py 273-275
NewProjectClick ==
    /\ ~NameScreen
    /\ start_project_creation
    /\ call' = NoCall(None)
    /\ UNCHANGED <<projects, next_project_id, current_project_id, discussions,
                   next_discussion_id, last_global_disc_selected, result, cache_vars>>

\* Variant of SubmitProjectName whose Create button is never disabled.
SubmitProjectName_nodisable(name, click) ==
    /\ NameScreen
    /\ IF click
       THEN finalize_project_creation(name)
       ELSE /\ pending_project_name' = name
            /\ call' = NoCall(name)
            /\ UNCHANGED <<projects, next_project_id, current_project_id,
                           current_discussion_id, pending_project_creation>>
    /\ UNCHANGED <<discussions, next_discussion_id, last_global_disc_selected, result, cache_vars>>

\* app.py 239-253: a run of the name screen with `name` in the text input and
\* the Create button clicked or not; a click on the disabled button does nothing.
SubmitProjectName(name, click) ==
    /\ NameScreen
    /\ LET create_disabled == strip(name) = <<>>
       IN  IF click /\ ~create_disabled
           THEN finalize_project_creation(name)
           ELSE /\ pending_project_name' = name
                /\ call' = NoCall(name)
                /\ UNCHANGED <<projects, next_project_id, current_project_id,
                               current_discussion_id, pending_project_creation>>
    /\ UNCHANGED <<discussions, next_discussion_id, last_global_disc_selected, result, cache_vars>>

\* Variant of ProjectClick that does not clear the current discussion.
ProjectClick_keepdisc(proj_id) ==
    /\ ~NameScreen
    /\ proj_id \in DOMAIN projects
    /\ set_current_project(proj_id)
    /\ call' = NoCall(None)
    /\ UNCHANGED <<projects, next_project_id, pending_project_creation,
                   pending_project_name, discussion_vars,
                   last_global_disc_selected, result, cache_vars>>

\* app.py 279-284
ProjectClick(proj_id) ==
    /\ ~NameScreen
    /\ proj_id \in DOMAIN projects
    /\ set_current_project(proj_id)
    /\ set_current_discussion(None)
    /\ call' = NoCall(None)
    /\ UNCHANGED <<projects, next_project_id, pending_project_creation,
                   pending_project_name, discussions, next_discussion_id,
                   last_global_disc_selected, result, cache_vars>>

\* app.py 287-305: the nested selector of the current project's discussions.
NestedSelect(selected_proj_disc) ==
    /\ ~NameScreen
    /\ current_project_id # None /\ current_discussion_id # None
    /\ current_discussion_id \in DOMAIN discussions
    /\ discussions[current_discussion_id].project_id = current_project_id
    /\ LET proj_disc_ids == get_project_discussion_ids(current_project_id)
       IN  /\ proj_disc_ids # <<>>
           /\ current_discussion_id \in Range(proj_disc_ids)
           /\ selected_proj_disc \in Range(proj_disc_ids)
    /\ selected_proj_disc # current_discussion_id
    /\ set_current_discussion(selected_proj_disc)
    /\ call' = NoCall(None)
    /\ UNCHANGED <<project_vars, discussions, next_discussion_id,
                   last_global_disc_selected, result, cache_vars>>

\* Variant of has_blank_global that never sees a blank discussion.
has_blank_global_never == FALSE

\* app.py 313-316
has_blank_global ==
    \E d \in Range(get_global_discussion_ids) : discussions[d].image_bytes = None

\* app.py 312-320
NewDiscussionClick ==
    /\ ~NameScreen
    /\ IF ~has_blank_global
       THEN /\ create_new_discussion(None)
            /\ set_current_project(None)
       ELSE /\ call' = NoCall(None)
            /\ UNCHANGED <<discussions, next_discussion_id, current_discussion_id,
                           projects, current_project_id>>
    /\ UNCHANGED <<next_project_id, pending_project_creation, pending_project_name,
                   last_global_disc_selected, result, cache_vars>>

\* app.py 322-338: the global selector shows selected_global_disc.
GlobalSelect(selected_global_disc) ==
    /\ ~NameScreen
    /\ get_global_discussion_ids # <<>>
    /\ selected_global_disc \in Range(get_global_discussion_ids)
    /\ LET prev_selected == last_global_disc_selected
       IN  IF prev_selected = None
           THEN /\ last_global_disc_selected' = selected_global_disc
                /\ UNCHANGED <<current_project_id, current_discussion_id>>
           ELSE /\ selected_global_disc # prev_selected
                /\ last_global_disc_selected' = selected_global_disc
                /\ set_current_project(None)
                /\ set_current_discussion(selected_global_disc)
    /\ call' = NoCall(None)
    /\ UNCHANGED <<projects, next_project_id, pending_project_creation,
                   pending_project_name, discussions, next_discussion_id, result, cache_vars>>

\* app.py 365-382: Open on one of the project's discussions.
OpenProjectDiscussion(d_id) ==
    /\ ~NameScreen
    /\ CaseA
    /\ d_id \in Range(get_project_discussion_ids(current_project_id))
    /\ set_current_discussion(d_id)
    /\ call' = NoCall(None)
    /\ UNCHANGED <<project_vars, discussions, next_discussion_id,
                   last_global_disc_selected, result, cache_vars>>

\* app.py 393-396
NewProjectDiscussionClick ==
    /\ ~NameScreen
    /\ CaseA
    /\ create_new_discussion(current_project_id)
    /\ UNCHANGED <<next_project_id, current_project_id, pending_project_creation,
                   pending_project_name, last_global_disc_selected, result, cache_vars>>

\* app.py 440-474: the first upload into the current discussion.
Upload(uploaded_file) ==
    /\ ~NameScreen
    /\ ~CaseA
    /\ ~current_discussion_is_None
    /\ get_current_discussion.image_bytes = None
    /\ LET parts == splitext(uploaded_file.name)
           base == parts[1]
           ext == IF parts[2] = <<>> THEN <<".png">> ELSE parts[2]
       IN  discussions' = [discussions EXCEPT ![current_discussion_id] =
                              [@ EXCEPT !.image_bytes = uploaded_file.bytes,
                                        !.orig_name = base,
                                        !.orig_ext = ext,
                                        !.name = base]]
    /\ call' = NoCall(None)
    /\ UNCHANGED <<project_vars, next_discussion_id, current_discussion_id,
                   last_global_disc_selected, result, cache_vars>>

Next ==
    \/ init_pipeline_state
    \/ (next_project_id <= MaxProjects /\ NewProjectClick)
    \/ \E name \in TypedNames, click \in BOOLEAN : SubmitProjectName(name, click)
    \/ \E proj_id \in DOMAIN projects : ProjectClick(proj_id)
    \/ \E d \in DOMAIN discussions : NestedSelect(d)
    \/ (next_discussion_id <= MaxDiscussions /\ NewDiscussionClick)
    \/ \E d \in DOMAIN discussions : GlobalSelect(d)
    \/ \E d \in DOMAIN discussions : OpenProjectDiscussion(d)
    \/ (next_discussion_id <= MaxDiscussions /\ NewProjectDiscussionClick)
    \/ \E f \in UploadedFiles : Upload(f)

Spec == Init /\ [][Next]_vars

-----------------------------------------------------------------------------
(* The manager functions called directly, in any order, on ids that exist *)

ApiCreateDiscussion(project_id) ==
    /\ next_discussion_id <= MaxDiscussions
    /\ project_id \in {None} \cup DOMAIN projects
    /\ create_new_discussion(project_id)
    /\ UNCHANGED <<next_project_id, current_project_id, pending_project_creation,
                   pending_project_name, last_global_disc_selected, result, cache_vars>>

ApiFinalizeProject(name) ==
    /\ next_project_id <= MaxProjects
    /\ finalize_project_creation(name)
    /\ UNCHANGED <<discussions, next_discussion_id, last_global_disc_selected, result, cache_vars>>

ApiStartProjectCreation ==
    /\ start_project_creation
    /\ call' = NoCall(None)
    /\ UNCHANGED <<projects, next_project_id, current_project_id, discussions,
                   next_discussion_id, last_global_disc_selected, result, cache_vars>>

ApiSetCurrentProject(project_id) ==
    /\ project_id \in {None} \cup DOMAIN projects
    /\ set_current_project(project_id)
    /\ call' = NoCall(None)
    /\ UNCHANGED <<projects, next_project_id, pending_project_creation,
                   pending_project_name, discussion_vars,
                   last_global_disc_selected, result, cache_vars>>

ApiSetCurrentDiscussion(disc_id) ==
    /\ disc_id \in {None} \cup DOMAIN discussions
    /\ set_current_discussion(disc_id)
    /\ call' = NoCall(None)
    /\ UNCHANGED <<project_vars, discussions, next_discussion_id,
                   last_global_disc_selected, result, cache_vars>>

ApiNext ==
    \/ \E project_id \in {None} \cup DOMAIN projects : ApiCreateDiscussion(project_id)
    \/ \E name \in TypedNames : ApiFinalizeProject(name)
    \/ ApiStartProjectCreation
    \/ \E project_id \in {None} \cup DOMAIN projects : ApiSetCurrentProject(project_id)
    \/ \E disc_id \in {None} \cup DOMAIN discussions : ApiSetCurrentDiscussion(disc_id)

ApiSpec == Init /\ [][ApiNext]_vars

-----------------------------------------------------------------------------
(* pipeline/processing.py, styles/basic_filters.py, styles/artistic.py       *)
(*                                                                           *)
(* An image is its source bytes, its size and the sequence of transforms     *)
(* applied to it; the bytes <<"img", w, h>> decode to an image of size w x h. *)

Image_open(image_bytes) ==
    [src |-> image_bytes, size |-> <<image_bytes[2], image_bytes[3]>>, ops |-> <<>>]

Max(a, b) == IF a >= b THEN a ELSE b

Transformed(img, op) == [img EXCEPT !.ops = Append(@, op)]

(* Python floats are IEEE-754 binary64.  A positive float is kept exactly, as  *)
(* [limbs, exp]: the natural number whose base-2^LimbBits digits are limbs,   *)
(* least significant first, times 2^exp.  Every operation rounds its exact    *)
(* result to MantissaBits significant bits, ties to even, as the hardware     *)
(* does.  Sides and max_dim are below 2^18, so every intermediate integer     *)
(* stays below 2^31.                                                          *)

\* The binary digits of a float's significand.
MantissaBits == 53

\* The binary digits of one limb.
LimbBits == 13

RECURSIVE Doubled(_)
Doubled(n) == IF n = 0 THEN 1 ELSE 2 * Doubled(n - 1)

\* The powers of two an integer of 32 bits holds.
PowersOfTwo == [n \in 0..30 |-> Doubled(n)]

Pow2(n) == PowersOfTwo[n]

Base == Pow2(LimbBits)

RECURSIVE Reverse(_)
Reverse(s) == IF s = <<>> THEN <<>> ELSE Append(Reverse(Tail(s)), Head(s))

Limb(X, j) == IF j \in 1..Len(X) THEN X[j] ELSE 0

\* Binary digit i (from 0, the least significant) of X.
Bit(X, i) == (Limb(X, i \div LimbBits + 1) \div Pow2(i % LimbBits)) % 2

\* The number of binary digits of X, whose last limb is not 0.
BitLen(X) ==
    LimbBits * (Len(X) - 1)
        + (CHOOSE n \in 1..LimbBits : Pow2(n - 1) <= X[Len(X)] /\ X[Len(X)] < Pow2(n))

\* X \div 2^d
ShiftRight(X, d) ==
    LET q == d \div LimbBits
        s == d % LimbBits
    IN  [j \in 1..Max(Len(X) - q, 0) |->
            (Limb(X, j + q) \div Pow2(s)) + (Limb(X, j + q + 1) % Pow2(s)) * Pow2(LimbBits - s)]

\* X + 1
RECURSIVE IncLimbs(_)
IncLimbs(X) ==
    IF X = <<>> THEN <<1>>
    ELSE IF Head(X) + 1 < Base THEN <<Head(X) + 1>> \o Tail(X)
         ELSE <<0>> \o IncLimbs(Tail(X))

\* X as an integer, for X below 2^31.
RECURSIVE LimbsToInt(_)
LimbsToInt(X) == IF X = <<>> THEN 0 ELSE Head(X) + Base * LimbsToInt(Tail(X))

\* w * X + carry
RECURSIVE Times(_, _, _)
Times(X, w, carry) ==
    IF X = <<>>
    THEN IF carry = 0 THEN <<>> ELSE <<carry % Base>> \o Times(<<>>, w, carry \div Base)
    ELSE LET acc == carry + w * Head(X)
         IN  <<acc % Base>> \o Times(Tail(X), w, acc \div Base)

\* An exact positive number rounded to a float.
float_round(x) ==
    LET n == BitLen(x.limbs)
        d == n - MantissaBits
        kept == ShiftRight(x.limbs, d)
        sticky == \E i \in 0..(d - 2) : Bit(x.limbs, i) = 1
        up == Bit(x.limbs, d - 1) = 1 /\ (sticky \/ Bit(x.limbs, d) = 1)
    IN  IF n <= MantissaBits THEN x
        ELSE [limbs |-> IF up THEN IncLimbs(kept) ELSE kept, exp |-> x.exp + d]

\* The least k with m * 2^k >= l, and m * 2^k, for 0 < m.
RECURSIVE Normalize(_, _, _)
Normalize(m, l, k) == IF m >= l THEN <<m, k>> ELSE Normalize(2 * m, l, k + 1)

\* The next n limbs of r / l for 0 <= r < l, most significant first.
RECURSIVE QuotientLimbs(_, _, _)
QuotientLimbs(r, l, n) ==
    IF n = 0 THEN <<>>
    ELSE <<(r * Base) \div l>> \o QuotientLimbs((r * Base) % l, l, n - 1)

\* The remainder those n limbs leave.
RECURSIVE QuotientRem(_, _, _)
QuotientRem(r, l, n) == IF n = 0 THEN r ELSE QuotientRem((r * Base) % l, l, n - 1)

\* m / float(l) for integers 0 < m < l: the quotient correctly rounded.
float_div(m, l) ==
    LET norm == Normalize(m, l, 0)
        r0 == norm[1] - l
        nlimbs == (MantissaBits - 1) \div LimbBits
        digits == Reverse(QuotientLimbs(r0, l, nlimbs)) \o <<1>>
        rem == QuotientRem(r0, l, nlimbs)
        up == 2 * rem > l \/ (2 * rem = l /\ digits[1] % 2 = 1)
    IN  [limbs |-> IF up THEN IncLimbs(digits) ELSE digits,
         exp |-> 0 - (norm[2] + MantissaBits - 1)]

\* w * f for an integer w > 0 and a float f: the product correctly rounded.
float_mul(w, f) == float_round([limbs |-> Times(f.limbs, w, 0), exp |-> f.exp])

\* int(f): the float truncated toward zero.
float_int(f) ==
    IF f.exp >= 0 THEN LimbsToInt(f.limbs) * Pow2(f.exp)
    ELSE LimbsToInt(ShiftRight(f.limbs, 0 - f.exp))

\* processing.py 15-21: the size resize_for_processing asks PIL for.
resize_dims(w, h, max_dim) ==
    LET longest == Max(w, h)
        scale == float_div(max_dim, longest)
        new_w == float_int(float_mul(w, scale))
        new_h == float_int(float_mul(h, scale))
    IN  IF longest <= max_dim THEN <<w, h>> ELSE <<new_w, new_h>>

resize_for_processing(image, max_dim) ==
    LET size == resize_dims(image.size[1], image.size[2], max_dim)
    IN  IF Max(image.size[1], image.size[2]) <= max_dim THEN image
        ELSE [Transformed(image, <<"resize", size[1], size[2]>>) EXCEPT !.size = size]

bw_filter(img) == Transformed(img, <<"bw">>)

sketch_filter(img) == Transformed(img, <<"sketch">>)

cartoon_filter(img) == Transformed(img, <<"cartoon">>)

blur_filter_noparity(img, ksize) == Transformed(img, <<"blur", ksize>>)

blur_filter(img, ksize) ==
    Transformed(img, <<"blur", IF ksize % 2 = 0 THEN ksize + 1 ELSE ksize>>)

auto_enhance_filter(img) == Transformed(img, <<"auto_enhance">>)

vivid_filter(img) == Transformed(img, <<"vivid">>)

vintage_filter(img) == Transformed(img, <<"vintage">>)

painting(image, sigma_s, sigma_r) == Transformed(image, <<"painting", sigma_s, sigma_r>>)

apply_filter(img, name, blur_ksize) ==
    CASE name = "none"         -> img
      [] name = "bw"           -> bw_filter(img)
      [] name = "sketch"       -> sketch_filter(img)
      [] name = "cartoon"      -> cartoon_filter(img)
      [] name = "blur"         -> blur_filter(img, blur_ksize)
      [] name = "auto_enhance" -> auto_enhance_filter(img)
      [] name = "vivid"        -> vivid_filter(img)
      [] name = "vintage"      -> vintage_filter(img)
      [] OTHER                 -> img

label_to_name ==
    [label \in {"None", "Black & White", "Sketch", "Cartoon", "Blur"} |->
        CASE label = "None"          -> "none"
          [] label = "Black & White" -> "bw"
          [] label = "Sketch"        -> "sketch"
          [] label = "Cartoon"       -> "cartoon"
          [] label = "Blur"          -> "blur"]

Returned(original, styled) == [raised |-> "", original |-> original, styled |-> styled]

Raised(exception) == [raised |-> exception, original |-> None, styled |-> None]

\* Image.resize refuses a size with a side below 1.
resize_raises(image) == image.size[1] < 1 \/ image.size[2] < 1

process_image(image_bytes, filter_label, blur_strength, painting_detail, painting_color_smooth, max_dim) ==
    LET img == resize_for_processing(Image_open(image_bytes), max_dim)
    IN  IF resize_raises(img) THEN Raised("ValueError")
        ELSE IF filter_label = "Painting"
        THEN Returned(img, painting(img, painting_detail, painting_color_smooth))
        ELSE IF filter_label \notin DOMAIN label_to_name
             THEN Raised("KeyError")
             ELSE Returned(img, apply_filter(img, label_to_name[filter_label], blur_strength))

\* app.py 495-505: the labels the style selector offers.
style_options ==
    <<"None", "Black & White", "Sketch", "Cartoon", "Blur", "Painting",
      "Auto Enhance", "Vivid Colors", "Vintage">>

\* app.py 554: the largest side by quality mode.
max_dim_of(quality_mode) == IF quality_mode = "Fast" THEN 600 ELSE 1200

\* A label the selector does not offer and no table knows.
UnknownLabels == {"Sepia"}

ImageBytes == {f.bytes : f \in UploadedFiles}

BlurStrengths == {9, 10}

PaintingDetails == {60, 70}

PaintingColorSmooths == {6}

\* One call of process_image on arguments of its declared types.
ProcessImageCall(image_bytes, filter_label, blur_strength, painting_detail, painting_color_smooth, max_dim) ==
    /\ result' = [image_bytes |-> image_bytes, filter_label |-> filter_label,
                  blur_strength |-> blur_strength, painting_detail |-> painting_detail,
                  painting_color_smooth |-> painting_color_smooth, max_dim |-> max_dim,
                  out |-> process_image(image_bytes, filter_label, blur_strength,
                                        painting_detail, painting_color_smooth, max_dim)]
    /\ UNCHANGED <<project_vars, discussion_vars, last_global_disc_selected, call, cache_vars>>

PipelineNext ==
    \E image_bytes \in ImageBytes,
       filter_label \in Range(style_options) \cup UnknownLabels,
       blur_strength \in BlurStrengths,
       painting_detail \in PaintingDetails,
       painting_color_smooth \in PaintingColorSmooths,
       quality_mode \in {"Fast", "High quality"} :
        ProcessImageCall(image_bytes, filter_label, blur_strength, painting_detail,
                         painting_color_smooth, max_dim_of(quality_mode))

PipelineSpec == Init /\ [][PipelineNext]_vars

\* The sides of the images resize_for_processing is applied to: the smallest
\* sides, and sides of photographs.
Sides == {1, 2, 49, 500, 1000, 1109, 2000}

\* The values of max_dim: the smallest, the default, and those app.py passes.
MaxDims == {1, max_dim_of("Fast"), 800, max_dim_of("High quality")}

\* One call of resize_for_processing on an image of size w x h; ret is the
\* size of the image it returns or asks PIL for.
ResizeCall(w, h, max_dim) ==
    /\ call' = [op |-> "resize_for_processing", arg |-> <<w, h, max_dim>>,
                ret |-> resize_dims(w, h, max_dim)]
    /\ UNCHANGED <<project_vars, discussion_vars, last_global_disc_selected, result, cache_vars>>

ResizeNext == \E w \in Sides, h \in Sides, max_dim \in MaxDims : ResizeCall(w, h, max_dim)

ResizeSpec == Init /\ [][ResizeNext]_vars

-----------------------------------------------------------------------------
(* processing.py 25: process_image behind @st.cache_data(ttl=3600).  The     *)
(* decorator keeps, per value of the argument tuple, the value the body      *)
(* returned and when; a call whose tuple has an entry younger than the ttl   *)
(* gets that value without running the body; any other call runs the body    *)
(* and stores what it returns; a raised exception is stored nowhere.         *)

\* The seconds an entry lives.
TTL == 3600

\* The calls of one exploration, and its clock steps of half a ttl.
MaxCalls == 3

MaxTicks == 2

cache_key_nomaxdim(image_bytes, filter_label, blur_strength, painting_detail, painting_color_smooth, max_dim) ==
    <<image_bytes, filter_label, blur_strength, painting_detail, painting_color_smooth>>

\* The decorator hashes every argument of the call.
cache_key(image_bytes, filter_label, blur_strength, painting_detail, painting_color_smooth, max_dim) ==
    <<image_bytes, filter_label, blur_strength, painting_detail, painting_color_smooth, max_dim>>

Live(key) == key \in DOMAIN cache /\ now < cache[key].time + TTL

CachedProcessImageCall(image_bytes, filter_label, blur_strength, painting_detail, painting_color_smooth, max_dim) ==
    LET key == cache_key(image_bytes, filter_label, blur_strength, painting_detail,
                         painting_color_smooth, max_dim)
        out == IF Live(key) THEN cache[key].value
               ELSE process_image(image_bytes, filter_label, blur_strength,
                                  painting_detail, painting_color_smooth, max_dim)
    IN  /\ ncalls' = ncalls + 1
        /\ result' = [image_bytes |-> image_bytes, filter_label |-> filter_label,
                      blur_strength |-> blur_strength, painting_detail |-> painting_detail,
                      painting_color_smooth |-> painting_color_smooth, max_dim |-> max_dim,
                      out |-> out]
        /\ IF Live(key) THEN UNCHANGED <<cache, computations>>
           ELSE /\ computations' = computations + 1
                /\ cache' = IF out.raised = ""
                            THEN Put(cache, key, [value |-> out, time |-> now])
                            ELSE cache
        /\ UNCHANGED <<project_vars, discussion_vars, last_global_disc_selected, call, now>>

\* Half a ttl passes.
Tick ==
    /\ now' = now + TTL \div 2
    /\ UNCHANGED <<project_vars, discussion_vars, last_global_disc_selected, call, result,
                   cache, ncalls, computations>>

\* One argument tuple and the tuples that differ from it in one component.
BaseArgs == <<<<"img", 2000, 1000>>, "Blur", 9, 60, 6, max_dim_of("Fast")>>

CacheArgs ==
    {a \in ImageBytes \X {"Blur", "Painting", "Vintage"} \X {9, 11} \X {60, 70} \X {6, 7}
            \X {max_dim_of("Fast"), max_dim_of("High quality")} :
        Cardinality({i \in 1..6 : a[i] # BaseArgs[i]}) <= 1}

CacheNext ==
    \/ /\ ncalls < MaxCalls
       /\ \E a \in CacheArgs : CachedProcessImageCall(a[1], a[2], a[3], a[4], a[5], a[6])
    \/ /\ now < MaxTicks * (TTL \div 2)
       /\ Tick

CacheSpec == Init /\ [][CacheNext]_vars

-----------------------------------------------------------------------------
(* app.py 476-572: the style controls of the current discussion *)

\* app.py 521-551: the position each slider is moved to, off its default.
BlurChoices == {11}

PaintingDetailChoices == {70}

PaintingColorSmoothChoices == {7}

\* The labels picked in the selector: one without parameters, the two with
\* sliders, and one of those process_image has no table entry for.
StyleChoices == {"None", "Blur", "Painting", "Vintage"}

\* One run of main() with the style controls of the current discussion shown:
\* the widgets give the label and, for the sliders shown, their values; the
\* other parameters are the stored ones; process_image runs, and the settings
\* are saved when it returns.  The value it returns is the same computed or
\* served by the cache.
StyleRun(filter_label, blur_choice, detail_choice, smooth_choice, quality_mode) ==
    /\ ~NameScreen
    /\ ~CaseA
    /\ ~current_discussion_is_None
    /\ get_current_discussion.image_bytes # None
    /\ LET disc == get_current_discussion
           blur_strength == IF filter_label = "Blur" THEN blur_choice ELSE disc.blur_strength
           painting_detail ==
               IF filter_label = "Painting" THEN detail_choice ELSE disc.painting_detail
           painting_color_smooth ==
               IF filter_label = "Painting" THEN smooth_choice ELSE disc.painting_color_smooth
           max_dim == max_dim_of(quality_mode)
           out == process_image(disc.image_bytes, filter_label, blur_strength,
                                painting_detail, painting_color_smooth, max_dim)
       IN  /\ result' = [image_bytes |-> disc.image_bytes, filter_label |-> filter_label,
                         blur_strength |-> blur_strength, painting_detail |-> painting_detail,
                         painting_color_smooth |-> painting_color_smooth, max_dim |-> max_dim,
                         out |-> out]
           /\ discussions' =
                  IF out.raised # "" THEN discussions
                  ELSE [discussions EXCEPT ![current_discussion_id] =
                           [@ EXCEPT !.filter_label = filter_label,
                                     !.blur_strength = blur_strength,
                                     !.painting_detail = painting_detail,
                                     !.painting_color_smooth = painting_color_smooth]]
    /\ call' = NoCall(None)
    /\ UNCHANGED <<project_vars, next_discussion_id, current_discussion_id,
                   last_global_disc_selected, cache_vars>>

\* The discussions and projects of an exploration with the style controls.
StyleMaxDiscussions == 2

StyleMaxProjects == 1

StyleNext ==
    \/ /\ Next
       /\ next_discussion_id' <= StyleMaxDiscussions + 1
       /\ next_project_id' <= StyleMaxProjects + 1
    \/ \E filter_label \in StyleChoices, blur_choice \in BlurChoices,
          detail_choice \in PaintingDetailChoices, smooth_choice \in PaintingColorSmoothChoices,
          quality_mode \in {"Fast", "High quality"} :
            StyleRun(filter_label, blur_choice, detail_choice, smooth_choice, quality_mode)

StyleSpec == Init /\ [][StyleNext]_vars

-----------------------------------------------------------------------------
(* Properties of the style pipeline *)

ProcessImageCalled == result.image_bytes # None

\* The resized original a call of process_image is to return first.
ResizedOriginal == resize_for_processing(Image_open(result.image_bytes), result.max_dim)

\* C1: for every style label that is not one of the recognised styles,
\* process_image does not fail and returns the resized original as the styled
\* image (the identity fallback).
C1_UnknownLabelFallsBackToIdentity ==
    (ProcessImageCalled /\ result.filter_label \notin Range(style_options))
        => /\ result.out.raised = ""
           /\ result.out.original = ResizedOriginal
           /\ result.out.styled = ResizedOriginal

\* The transform each selectable label stands for, as the last transform of
\* the styled image (none for the label None).
StyleOf(label) ==
    CASE label = "None"          -> "none"
      [] label = "Black & White" -> "bw"
      [] label = "Sketch"        -> "sketch"
      [] label = "Cartoon"       -> "cartoon"
      [] label = "Blur"          -> "blur"
      [] label = "Painting"      -> "painting"
      [] label = "Auto Enhance"  -> "auto_enhance"
      [] label = "Vivid Colors"  -> "vivid"
      [] label = "Vintage"       -> "vintage"

AppliedStyle(original, styled) ==
    IF styled = original THEN "none"
    ELSE IF Len(styled.ops) = Len(original.ops) + 1
            /\ SubSeq(styled.ops, 1, Len(original.ops)) = original.ops
         THEN styled.ops[Len(styled.ops)][1]
         ELSE "other"

\* C2: for each of the 9 labels the style selector offers, process_image
\* completes and applies the transform of that same style to the resized
\* original.
C2_SelectableLabelAppliesItsStyle ==
    (ProcessImageCalled /\ result.filter_label \in Range(style_options))
        => /\ result.out.raised = ""
           /\ result.out.original = ResizedOriginal
           /\ AppliedStyle(result.out.original, result.out.styled)
                  = StyleOf(result.filter_label)

-----------------------------------------------------------------------------
(* Properties of the session state under the handlers of main() *)

IsBlank(d) == discussions[d].image_bytes = None

BlankGlobals == {d \in DOMAIN discussions : discussions[d].project_id = None /\ IsBlank(d)}

BlankIn(project_id) ==
    {d \in Range(projects[project_id].discussion_ids) : d \in DOMAIN discussions /\ IsBlank(d)}

\* C3: if current_discussion_id is set and that discussion has a project_id,
\* then current_project_id is that project_id.
C3_CurrentProjectOwnsCurrentDiscussion ==
    (current_discussion_id # None /\ current_discussion_id \in DOMAIN discussions)
        => \/ discussions[current_discussion_id].project_id = None
           \/ discussions[current_discussion_id].project_id = current_project_id

\* A discussion of the second project is current while the first project has
\* discussions too.
C3_Witness ==
    /\ current_discussion_id # None
    /\ current_discussion_id \in DOMAIN discussions
    /\ discussions[current_discussion_id].project_id = ProjId(2)
    /\ get_project_discussion_ids(ProjId(1)) # <<>>

\* C4: at most one global discussion (project_id is None) is blank
\* (image_bytes is None).
C4_AtMostOneBlankGlobal == Cardinality(BlankGlobals) <= 1

\* Two global discussions exist, the older one with an image and the newer one
\* blank: the New discussion button has created a discussion after an upload.
C4_Witness ==
    /\ Len(get_global_discussion_ids) >= 2
    /\ ~IsBlank(get_global_discussion_ids[1])
    /\ IsBlank(get_global_discussion_ids[2])

\* C5 as stated: each project has at most one blank discussion among the
\* discussions in its discussion_ids.
C5_AtMostOneBlankPerProject ==
    \A p \in DOMAIN projects : Cardinality(BlankIn(p)) <= 1

\* C5 as amended: the one-blank rule is not enforced for project scope; every
\* "New discussion in this project" click appends a new blank discussion to the
\* current project, whether or not the project already has a blank one.
C5_ProjectDiscussionAlwaysCreated ==
    [][NewProjectDiscussionClick =>
          /\ Len(get_project_discussion_ids(current_project_id)')
                = Len(get_project_discussion_ids(current_project_id)) + 1
          /\ Cardinality(BlankIn(current_project_id)')
                = Cardinality(BlankIn(current_project_id)) + 1]_vars

\* A project holds two blank discussions.
C5_Witness ==
    \E p \in DOMAIN projects : Cardinality(BlankIn(p)) >= 2

-----------------------------------------------------------------------------
(* Properties of the manager functions *)

\* The step is a call of create_new_discussion / finalize_project_creation:
\* call' holds the call, and differs from call because the returned id does.
CreatesDiscussion == call' # call /\ call'.op = "create_new_discussion"

CreatesProject == call' # call /\ call'.op = "finalize_project_creation"

\* C6: after create_new_discussion(project_id=None), get_global_discussion_ids()
\* includes the returned id, the new discussion has the default fields and no
\* project, and current_discussion_id is the returned id.
C6_NewGlobalDiscussionDefaults ==
    (call.op = "create_new_discussion" /\ call.arg = None)
        => /\ call.ret \in Range(get_global_discussion_ids)
           /\ discussions[call.ret].filter_label = "None"
           /\ discussions[call.ret].image_bytes = None
           /\ discussions[call.ret].blur_strength = 9
           /\ discussions[call.ret].painting_detail = 60
           /\ discussions[call.ret].painting_color_smooth = 6
           /\ discussions[call.ret].project_id = None
           /\ current_discussion_id = call.ret

\* create_new_discussion(None) has just returned a discussion other than the
\* default one, in a session that has a project with a discussion.
C6_Witness ==
    /\ call.op = "create_new_discussion" /\ call.arg = None
    /\ call.ret # DiscId(1)
    /\ \E p \in DOMAIN projects : projects[p].discussion_ids # <<>>

\* The discussions of a project in creation order.
DiscussionsOf(project_id) ==
    SelectSeq(DiscussionKeys, LAMBDA d : discussions[d].project_id = project_id)

\* C7: after create_new_discussion(project_id=P) the new discussion's
\* project_id is P and get_project_discussion_ids(P) is its previous value
\* with the new id appended; every project's list is exactly its discussions
\* in creation order, and the new id is neither global nor in another
\* project's list.
C7_AppendedInCreationOrder ==
    /\ [](\A p \in DOMAIN projects : get_project_discussion_ids(p) = DiscussionsOf(p))
    /\ [][\A P \in DOMAIN projects :
             (CreatesDiscussion /\ call'.arg = P) =>
                 LET new == call'.ret
                 IN  /\ discussions'[new].project_id = P
                     /\ get_project_discussion_ids(P)'
                            = Append(get_project_discussion_ids(P), new)
                     /\ new \notin Range(get_global_discussion_ids')
                     /\ \A q \in DOMAIN projects' \ {P} :
                            /\ new \notin Range(get_project_discussion_ids(q)')
                            /\ get_project_discussion_ids(q)'
                                   = get_project_discussion_ids(q)]_vars

\* create_new_discussion(proj_1) has just appended a second discussion to the
\* first project's list, in a session that has a second project.
C7_Witness ==
    /\ call.op = "create_new_discussion" /\ call.arg = ProjId(1)
    /\ Len(get_project_discussion_ids(ProjId(1))) >= 2
    /\ ProjId(2) \in DOMAIN projects

\* C8: finalize_project_creation(name) returns an id that was not a key of the
\* projects table, adds exactly that project with an empty discussion_ids list,
\* and leaves current_project_id = the new id, current_discussion_id = None,
\* pending_project_creation = False.
C8_FinalizeCreatesFreshProject ==
    [][CreatesProject =>
          LET new == call'.ret
          IN  /\ new \notin DOMAIN projects
              /\ DOMAIN projects' = DOMAIN projects \cup {new}
              /\ \A p \in DOMAIN projects : projects'[p] = projects[p]
              /\ projects'[new].discussion_ids = <<>>
              /\ current_project_id' = new
              /\ current_discussion_id' = None
              /\ pending_project_creation' = FALSE]_vars

\* finalize_project_creation has just returned the second project, in a
\* session whose first project has discussions.
C8_Witness ==
    /\ call.op = "finalize_project_creation" /\ call.ret = ProjId(2)
    /\ get_project_discussion_ids(ProjId(1)) # <<>>
    /\ current_project_id = ProjId(2) /\ current_discussion_id = None

\* C9: every creation allocates an id that is not in its table, no discussion
\* or project is ever removed, and a discussion's project_id never changes.
C9_IdsUniqueAndStable ==
    [][/\ DOMAIN discussions \subseteq DOMAIN discussions'
       /\ DOMAIN projects \subseteq DOMAIN projects'
       /\ \A d \in DOMAIN discussions :
             discussions'[d].project_id = discussions[d].project_id
       /\ CreatesDiscussion =>
             /\ call'.ret \notin DOMAIN discussions
             /\ DOMAIN discussions' = DOMAIN discussions \cup {call'.ret}
       /\ CreatesProject =>
             /\ call'.ret \notin DOMAIN projects
             /\ DOMAIN projects' = DOMAIN projects \cup {call'.ret}
       /\ (~CreatesDiscussion) => DOMAIN discussions' = DOMAIN discussions
       /\ (~CreatesProject) => DOMAIN projects' = DOMAIN projects]_vars

\* Discussions were created in two projects and globally, and one has an image.
C9_Witness ==
    /\ get_project_discussion_ids(ProjId(1)) # <<>>
    /\ get_project_discussion_ids(ProjId(2)) # <<>>
    /\ Len(get_global_discussion_ids) >= 1
    /\ \E d \in DOMAIN discussions : ~IsBlank(d)

\* C10: every project's stored name is non-empty and equals its trimmed form,
\* and a run of the name screen with an empty or whitespace-only name, with or
\* without a click on Create, leaves the projects table, the id counter, the
\* selection pointers and the pending flag unchanged.
C10_BlankProjectNameRejected ==
    /\ [](\A p \in DOMAIN projects :
            projects[p].name # <<>> /\ strip(projects[p].name) = projects[p].name)
    /\ [][\A name \in TypedNames, click \in BOOLEAN :
             (strip(name) = <<>> /\ SubmitProjectName(name, click)) =>
                 UNCHANGED <<projects, next_project_id, current_project_id,
                             current_discussion_id, pending_project_creation>>]_vars

\* A whitespace-only name is in the input of the name screen after a click on
\* Create, the screen is still pending, and an earlier project was created
\* from a name typed with blanks around it.
C10_Witness ==
    /\ pending_project_creation
    /\ pending_project_name = <<" ", " ">>
    /\ \E p \in DOMAIN projects : projects[p].name = <<"a", " ", "b">>

-----------------------------------------------------------------------------
(* Properties of the pending project creation *)

\* A step of start_project_creation.
StartsProjectCreation == ~pending_project_creation /\ pending_project_creation'

\* A step of finalize_project_creation with a name that is not blank.
FinalizesWithName ==
    /\ CreatesProject
    /\ \E name \in TypedNames : call'.arg = name /\ strip(name) # <<>>
    /\ DOMAIN projects' = DOMAIN projects \cup {call'.ret}
    /\ ~pending_project_creation'

\* C15: start_project_creation sets the pending flag, clears
\* current_discussion_id and leaves the projects table, the discussions table
\* and current_project_id unchanged; while the flag is set, every step other
\* than finalizing with a non-blank name keeps the flag and leaves the
\* projects, the discussions, the id counters and both selection pointers
\* unchanged, so no project is created before finalize; and only finalize
\* clears the flag.
C15_PendingCreationFreezesState ==
    [][/\ StartsProjectCreation =>
             /\ current_discussion_id' = None
             /\ UNCHANGED <<projects, discussions, current_project_id>>
       /\ pending_project_creation =>
             \/ FinalizesWithName
             \/ /\ pending_project_creation'
                /\ UNCHANGED <<projects, next_project_id, current_project_id, discussions,
                               next_discussion_id, current_discussion_id>>
       /\ (pending_project_creation /\ ~pending_project_creation') => FinalizesWithName]_vars

\* Project creation was started while a project and one of its discussions
\* were selected, and a name has been typed since.
C15_Witness ==
    /\ pending_project_creation
    /\ pending_project_name # <<>>
    /\ current_project_id # None
    /\ current_discussion_id = None
    /\ get_project_discussion_ids(current_project_id) # <<>>

-----------------------------------------------------------------------------
(* Properties relating the two tables and the selection pointers *)

NoDuplicates(seq) == \A i, j \in 1..Len(seq) : seq[i] = seq[j] => i = j

\* C16: in every reachable state a discussion id is in projects[P].discussion_ids
\* if and only if that discussion exists with project_id = P; it is there
\* exactly once and in no other project's list; every discussion of a project
\* names a project of the table; so the current discussion of the current
\* project is found in that project's list.
C16_TablesReferentiallyConsistent ==
    /\ \A P \in DOMAIN projects :
          /\ \A d \in Range(projects[P].discussion_ids) :
                d \in DOMAIN discussions /\ discussions[d].project_id = P
          /\ \A d \in DOMAIN discussions :
                discussions[d].project_id = P => d \in Range(projects[P].discussion_ids)
          /\ NoDuplicates(projects[P].discussion_ids)
          /\ \A Q \in DOMAIN projects \ {P} :
                Range(projects[P].discussion_ids) \cap Range(projects[Q].discussion_ids) = {}
    /\ \A d \in DOMAIN discussions :
          discussions[d].project_id = None \/ discussions[d].project_id \in DOMAIN projects
    /\ (/\ current_project_id # None
        /\ ~current_discussion_is_None
        /\ get_current_discussion.project_id = current_project_id)
           => current_discussion_id \in Range(get_project_discussion_ids(current_project_id))

\* The first project holds two discussions, the older of them current, and a
\* second project exists.
C16_Witness ==
    /\ ProjId(2) \in DOMAIN projects
    /\ Len(get_project_discussion_ids(ProjId(1))) = 2
    /\ current_project_id = ProjId(1)
    /\ current_discussion_id = get_project_discussion_ids(ProjId(1))[1]

\* C17: in every state reachable through the UI actions current_project_id is
\* None or a key of the projects table and current_discussion_id is None or a
\* key of the discussions table, and the discussions table is not empty.
C17_PointersValidAndDiscussionsNonEmpty ==
    /\ current_project_id = None \/ current_project_id \in DOMAIN projects
    /\ current_discussion_id = None \/ current_discussion_id \in DOMAIN discussions
    /\ DOMAIN discussions # {}

\* The older of two projects was selected again and one of its discussions
\* opened.
C17_Witness ==
    /\ ProjId(2) \in DOMAIN projects
    /\ current_project_id = ProjId(1)
    /\ current_discussion_id \in DOMAIN discussions
    /\ get_current_discussion.project_id = ProjId(1)
    /\ Len(get_project_discussion_ids(ProjId(1))) = 1

-----------------------------------------------------------------------------
(* Properties of the per-discussion settings *)

StyleFields(disc) ==
    <<disc.filter_label, disc.blur_strength, disc.painting_detail, disc.painting_color_smooth>>

UploadFields(disc) == <<disc.image_bytes, disc.orig_name, disc.orig_ext, disc.name>>

\* Every discussion but the current one, the projects and both selection
\* pointers are left as they are.
OnlyCurrentDiscussionModified ==
    /\ DOMAIN discussions' = DOMAIN discussions
    /\ \A d \in DOMAIN discussions \ {current_discussion_id} : discussions'[d] = discussions[d]
    /\ discussions'[current_discussion_id].project_id
           = discussions[current_discussion_id].project_id
    /\ UNCHANGED <<projects, current_project_id, current_discussion_id>>

\* A run of the style controls stores what was chosen in the current
\* discussion and touches nothing else.
StylingStoresChoice ==
    \A filter_label \in StyleChoices, blur_choice \in BlurChoices,
       detail_choice \in PaintingDetailChoices, smooth_choice \in PaintingColorSmoothChoices,
       quality_mode \in {"Fast", "High quality"} :
        StyleRun(filter_label, blur_choice, detail_choice, smooth_choice, quality_mode) =>
            LET old == discussions[current_discussion_id]
                new == discussions'[current_discussion_id]
            IN  /\ OnlyCurrentDiscussionModified
                /\ UploadFields(new) = UploadFields(old)
                /\ new.filter_label = filter_label
                /\ new.blur_strength
                       = IF filter_label = "Blur" THEN blur_choice ELSE old.blur_strength
                /\ new.painting_detail
                       = IF filter_label = "Painting" THEN detail_choice ELSE old.painting_detail
                /\ new.painting_color_smooth
                       = IF filter_label = "Painting" THEN smooth_choice
                         ELSE old.painting_color_smooth

\* An upload stores the image and its names in the current discussion and
\* touches nothing else.
UploadStoresImage ==
    \A f \in UploadedFiles :
        Upload(f) =>
            /\ OnlyCurrentDiscussionModified
            /\ StyleFields(discussions'[current_discussion_id])
                   = StyleFields(discussions[current_discussion_id])
            /\ discussions'[current_discussion_id].image_bytes = f.bytes

\* The stored style parameters of a discussion change only by a run of its
\* own style controls, so they are still there when it is selected again.
StyleFieldsKept ==
    \A d \in DOMAIN discussions :
        StyleFields(discussions'[d]) # StyleFields(discussions[d])
            => /\ d = current_discussion_id
               /\ \E filter_label \in StyleChoices, blur_choice \in BlurChoices,
                     detail_choice \in PaintingDetailChoices,
                     smooth_choice \in PaintingColorSmoothChoices,
                     quality_mode \in {"Fast", "High quality"} :
                       StyleRun(filter_label, blur_choice, detail_choice, smooth_choice,
                                quality_mode)

\* C14: an upload or a style-parameter change made while discussion D is
\* current modifies only D's record (the upload its image and names, the
\* styling its four style parameters, set to what was chosen) and leaves every
\* other discussion, the projects and both selection pointers unchanged; and
\* no other step changes stored style parameters, so on returning to D they
\* are those last chosen in D.
C14_PerDiscussionPersistence ==
    [][StylingStoresChoice /\ UploadStoresImage /\ StyleFieldsKept]_vars

-----------------------------------------------------------------------------
(* Properties of the blur filter *)

BlurApplied ==
    ProcessImageCalled /\ result.filter_label = "Blur" /\ result.out.raised = ""

\* The kernel size of the Gaussian blur that made the styled image.
KernelUsed == result.out.styled.ops[Len(result.out.styled.ops)][2]

\* C13: for every blur strength k the blur filter uses the kernel size k when
\* k is odd and k + 1 when k is even, so the kernel size used is always odd
\* and an even strength gives the same image as the next odd strength.
C13_BlurKernelParity ==
    BlurApplied =>
        LET k == result.blur_strength
        IN  /\ AppliedStyle(result.out.original, result.out.styled) = "blur"
            /\ KernelUsed = IF k % 2 = 1 THEN k ELSE k + 1
            /\ KernelUsed % 2 = 1
            /\ k % 2 = 0 =>
                   result.out = process_image(result.image_bytes, "Blur", k + 1,
                                              result.painting_detail,
                                              result.painting_color_smooth, result.max_dim)

\* The blur was applied with an even strength.
C13_Witness == BlurApplied /\ result.blur_strength % 2 = 0

-----------------------------------------------------------------------------
(* Properties of the memoized pipeline *)

\* The argument tuple of the last call of process_image.
ResultArgs ==
    <<result.image_bytes, result.filter_label, result.blur_strength, result.painting_detail,
      result.painting_color_smooth, result.max_dim>>

\* The last call was served its own tuple's result.
ServedOwnResult ==
    ncalls > 0 =>
        result.out = process_image(result.image_bytes, result.filter_label, result.blur_strength,
                                   result.painting_detail, result.painting_color_smooth,
                                   result.max_dim)

\* A call whose tuple was computed less than a ttl ago gets that result and
\* the body does not run.
HitWithoutRecomputation ==
    (ncalls' = ncalls + 1) =>
        \A key \in DOMAIN cache :
            (key = ResultArgs' /\ now < cache[key].time + TTL)
                => /\ result'.out = cache[key].value
                   /\ computations' = computations
                   /\ cache' = cache

\* C12: the pipeline result is memoized by the full argument tuple: a call
\* whose tuple equals that of an earlier call whose result was computed within
\* the expiry window returns that result without recomputation, and no call
\* is ever served the result of a tuple differing in any component.
C12_MemoizedByFullTuple == []ServedOwnResult /\ [][HitWithoutRecomputation]_vars

\* A call was served from the cache, after the clock moved, while another
\* tuple's result was cached too.
C12_Witness ==
    /\ ncalls = MaxCalls
    /\ computations = 2
    /\ Cardinality(DOMAIN cache) = 2
    /\ ResultArgs \in DOMAIN cache
    /\ cache[ResultArgs].time < now

-----------------------------------------------------------------------------
(* Properties of resize_for_processing *)

ResizeCalled == call.op = "resize_for_processing"

Abs(x) == IF x < 0 THEN 0 - x ELSE x

\* C11: for all positive w, h and max_dim, resize_for_processing leaves an
\* image whose longest side is at most max_dim at its size (w, h); otherwise
\* its output is (floor(w*max_dim/longest), floor(h*max_dim/longest)), the
\* longest side of the output equals max_dim, and each output side is within
\* one pixel of the exactly scaled side.
C11_ResizeIsFloorWithLongestSideMaxDim ==
    ResizeCalled =>
        LET w == call.arg[1]
            h == call.arg[2]
            max_dim == call.arg[3]
            longest == Max(w, h)
        IN  IF longest <= max_dim THEN call.ret = <<w, h>>
            ELSE /\ call.ret = <<(w * max_dim) \div longest, (h * max_dim) \div longest>>
                 /\ Max(call.ret[1], call.ret[2]) = max_dim
                 /\ Abs(call.ret[1] * longest - w * max_dim) < longest
                 /\ Abs(call.ret[2] * longest - h * max_dim) < longest

\* C18: for all positive w, h and max_dim with max(w, h) > max_dim, both
\* sides resize_for_processing computes are at least 1.
C18_ResizeNeverDegenerate ==
    (ResizeCalled /\ Max(call.arg[1], call.arg[2]) > call.arg[3])
        => (call.ret[1] >= 1 /\ call.ret[2] >= 1)

====
